---- MODULE Spec2Model ----
(***************************************************************************)
(* Trade-up engine of the backend (src/backend.py): the Skin entity, the   *)
(* memoizing Backend._skin_cache, the rarity ladder, the outcome           *)
(* probabilities and the float remap.                                      *)
(*                                                                         *)
(* Python floats are IEEE-754 doubles: every operation on them rounds to    *)
(* the nearest double, ties to even.  None is the empty tuple <<>>.  A      *)
(* Python exception is a record [type, msg]; NoExc is a normal return.      *)
(***************************************************************************)
EXTENDS Integers, Sequences, FiniteSets, TLC

VARIABLES item_metadata, skin_cache, heap, items, ret, threads, window

vars == <<item_metadata, skin_cache, heap, items, ret, threads, window>>

(* ------------------------------ bounds -------------------------------- *)
\* longest input list a caller builds
MaxLen == 10
\* most runs of equal consecutive identifiers in a caller's input list
MaxRuns == 2
\* most Skin objects a caller of the lookups constructs
MaxObjs == 3
\* longest input list handed to calculate_output_float
MaxFloats == 3
\* most applications of next_rarity in one walk up the ladder
MaxWalk == 8
\* threads that call get_skin concurrently
MaxThreads == 2
\* most rows the user keeps in the selection list
MaxRows == 5

(* ------------------------- program constants -------------------------- *)
CovertCount == 5
DefaultCount == 10

(* --------------------------- natural numbers -------------------------- *)
\* A natural number of any size is the sequence of its base-2^15 digits,
\* least significant first, without leading zero digits; 0 is <<>>.
Base == 32768
LimbBits == 15

RECURSIVE BNorm(_)
BNorm(a) ==
    IF a = <<>> THEN <<>>
    ELSE IF a[Len(a)] = 0 THEN BNorm(SubSeq(a, 1, Len(a) - 1)) ELSE a

RECURSIVE BFromInt(_)
BFromInt(n) == IF n = 0 THEN <<>> ELSE <<n % Base>> \o BFromInt(n \div Base)

RECURSIVE BToInt(_)
BToInt(a) == IF a = <<>> THEN 0 ELSE Head(a) + Base * BToInt(Tail(a))

Digit(a, i) == IF i <= Len(a) THEN a[i] ELSE 0
Longer(a, b) == IF Len(a) >= Len(b) THEN Len(a) ELSE Len(b)

\* digits i.. of a + b, c the carry into digit i
RECURSIVE BAddFrom(_, _, _, _)
BAddFrom(a, b, i, c) ==
    IF i > Longer(a, b)
    THEN IF c = 0 THEN <<>> ELSE <<c>>
    ELSE <<(Digit(a, i) + Digit(b, i) + c) % Base>>
            \o BAddFrom(a, b, i + 1, (Digit(a, i) + Digit(b, i) + c) \div Base)

BAdd(a, b) == BAddFrom(a, b, 1, 0)

\* digits i.. of a - b for a >= b, c the borrow out of digit i - 1
RECURSIVE BSubFrom(_, _, _, _)
BSubFrom(a, b, i, c) ==
    IF i > Len(a) THEN <<>>
    ELSE <<(a[i] - Digit(b, i) - c + Base) % Base>>
            \o BSubFrom(a, b, i + 1,
                        IF a[i] - Digit(b, i) - c < 0 THEN 1 ELSE 0)

BSub(a, b) == BNorm(BSubFrom(a, b, 1, 0))

\* digits i.. of a * k for 0 <= k < Base, c the carry into digit i
RECURSIVE BMulSmallFrom(_, _, _, _)
BMulSmallFrom(a, k, i, c) ==
    IF i > Len(a)
    THEN IF c = 0 THEN <<>> ELSE <<c>>
    ELSE <<(a[i] * k + c) % Base>>
            \o BMulSmallFrom(a, k, i + 1, (a[i] * k + c) \div Base)

BMulSmall(a, k) == IF k = 0 THEN <<>> ELSE BMulSmallFrom(a, k, 1, 0)

\* a * Base
BUp(a) == IF a = <<>> THEN <<>> ELSE <<0>> \o a

RECURSIVE BMul(_, _)
BMul(a, b) ==
    IF b = <<>> THEN <<>>
    ELSE BAdd(BMulSmall(a, Head(b)), BUp(BMul(a, Tail(b))))

\* a < b on digits i down to 1, the digits above i being equal
RECURSIVE BLessFrom(_, _, _)
BLessFrom(a, b, i) ==
    IF i = 0 THEN FALSE
    ELSE IF a[i] # b[i] THEN a[i] < b[i]
    ELSE BLessFrom(a, b, i - 1)

BLess(a, b) ==
    IF Len(a) # Len(b) THEN Len(a) < Len(b) ELSE BLessFrom(a, b, Len(a))

\* quotient digits and remainder of a by 0 < n < Base, from the top digit
DivStep(high, d, n) ==
    [q |-> <<(high.r * Base + d) \div n>> \o high.q,
     r |-> (high.r * Base + d) % n]

RECURSIVE BDivRem(_, _)
BDivRem(a, n) ==
    IF a = <<>> THEN [q |-> <<>>, r |-> 0]
    ELSE DivStep(BDivRem(Tail(a), n), Head(a), n)

BDivSmall(a, n) == BNorm(BDivRem(a, n).q)
BModSmall(a, n) == BDivRem(a, n).r

RECURSIVE BUpBy(_, _)
BUpBy(a, k) == IF k = 0 THEN a ELSE BUpBy(BUp(a), k - 1)

\* a * 2^k and floor(a / 2^k)
BShl(a, k) == BMulSmall(BUpBy(a, k \div LimbBits), 2 ^ (k % LimbBits))
BShr(a, k) ==
    IF k \div LimbBits >= Len(a) THEN <<>>
    ELSE BDivSmall(SubSeq(a, (k \div LimbBits) + 1, Len(a)),
                   2 ^ (k % LimbBits))

RECURSIVE IntBits(_)
IntBits(n) == IF n = 0 THEN 0 ELSE 1 + IntBits(n \div 2)

\* the number of binary digits of a
BBitLen(a) ==
    IF a = <<>> THEN 0 ELSE LimbBits * (Len(a) - 1) + IntBits(a[Len(a)])

RECURSIVE IntTrailingZeros(_)
IntTrailingZeros(n) == IF n % 2 = 1 THEN 0 ELSE 1 + IntTrailingZeros(n \div 2)

\* the number of trailing zero binary digits of a # 0
RECURSIVE BTrailingZeros(_)
BTrailingZeros(a) ==
    IF Head(a) = 0 THEN LimbBits + BTrailingZeros(Tail(a))
    ELSE IntTrailingZeros(Head(a))

BOdd(a) == a # <<>> /\ Head(a) % 2 = 1

(* ------------------------------- floats ------------------------------- *)
\* A non-negative double is [m, e], the value m * 2^e, with m odd and below
\* 2^53, or zero.  Exponent range limits are never met by the values here.
Precision == 53

FZero == [m |-> <<>>, e |-> 0]

\* the value m * 2^e with m's trailing zeros moved into the exponent
Canon(m, e) ==
    IF m = <<>> THEN FZero
    ELSE [m |-> BShr(m, BTrailingZeros(m)), e |-> e + BTrailingZeros(m)]

\* q (the top 53 bits) rounded up or not by the bits shifted out: rem of
\* them against half a unit, ties to even; sticky tells of a non-zero rest
RoundUp(q, rem, half, sticky) ==
    IF BLess(half, rem) \/ (rem = half /\ (sticky \/ BOdd(q)))
    THEN BAdd(q, <<1>>) ELSE q

RoundShift(m, e, s, sticky) ==
    Canon(RoundUp(BShr(m, s), BSub(m, BShl(BShr(m, s), s)),
                  BShl(<<1>>, s - 1), sticky),
          e + s)

\* round-to-nearest-even of (m + rest) * 2^e to 53 bits, 0 <= rest < 1 and
\* sticky telling whether rest > 0
Round(m, e, sticky) ==
    IF BBitLen(m) <= Precision
    THEN Canon(m, e)
    ELSE RoundShift(m, e, BBitLen(m) - Precision, sticky)

\* the exact sum and difference (a >= b) of two values, as <<m, e>> unrounded
LowExp(a, b) == IF a.e <= b.e THEN a.e ELSE b.e
Aligned(a, e) == BShl(a.m, a.e - e)

FLess(a, b) ==
    IF a.m = <<>> THEN b.m # <<>>
    ELSE IF b.m = <<>> THEN FALSE
    ELSE BLess(Aligned(a, LowExp(a, b)), Aligned(b, LowExp(a, b)))

FAdd(a, b) ==
    IF a.m = <<>> THEN b
    ELSE IF b.m = <<>> THEN a
    ELSE Round(BAdd(Aligned(a, LowExp(a, b)), Aligned(b, LowExp(a, b))),
               LowExp(a, b), FALSE)

\* a - b for a >= b
FSub(a, b) ==
    IF b.m = <<>> THEN a
    ELSE Round(BSub(Aligned(a, LowExp(a, b)), Aligned(b, LowExp(a, b))),
               LowExp(a, b), FALSE)

FMul(a, b) == Round(BMul(a.m, b.m), a.e + b.e, FALSE)

\* float(n) for an int 0 <= n < 2^31
FInt(n) == Canon(BFromInt(n), 0)

\* a / float(n) for an int 0 < n < Base; 75 extra quotient bits make the
\* quotient longer than 53 bits
GuardBits == 75
FDivInt(a, n) ==
    Round(BDivSmall(BShl(a.m, GuardBits), n), a.e - GuardBits,
          BModSmall(BShl(a.m, GuardBits), n) # 0)

\* the double nearest to n / d: a decimal literal read from the tables
FRatio(n, d) == FDivInt(FInt(n), d)

\* round-half-even of x * 10^digits as an int: the digits of f"{x:.4f}"
HalfEven(q, r, d) ==
    IF BLess(d, BMulSmall(r, 2)) \/ (BMulSmall(r, 2) = d /\ BOdd(q))
    THEN BToInt(q) + 1 ELSE BToInt(q)

FixedUnits(x, scale) ==
    IF x.e >= 0 THEN BToInt(BShl(BMulSmall(x.m, scale), x.e))
    ELSE HalfEven(BShr(BMulSmall(x.m, scale), -x.e),
                  BSub(BMulSmall(x.m, scale),
                       BShl(BShr(BMulSmall(x.m, scale), -x.e), -x.e)),
                  BShl(<<1>>, -x.e))

FOne == FInt(1)

\* total = 0.0; for x in s: total += x
RECURSIVE FSumFrom(_, _, _)
FSumFrom(s, i, acc) ==
    IF i > Len(s) THEN acc ELSE FSumFrom(s, i + 1, FAdd(acc, s[i]))

FSum(s) == FSumFrom(s, 1, FZero)

None == <<>>

(* ------------------------------ exceptions ---------------------------- *)
NoExc == [type |-> "none", msg |-> ""]
Exc(t, m) == [type |-> t, msg |-> m]

(* ------------------------------ the catalog --------------------------- *)
Row(i, n, r, c, lo, hi) ==
    [id |-> i, name |-> n, rarity |-> r, collections |-> c,
     min_float |-> lo, max_float |-> hi]

\* The merged item table after Backend.load: a missing collection is "".
CatalogRows ==
    << Row(1, "ms_alpha", "Mil-Spec Grade", "Alpha", FZero, FOne),
       Row(2, "ms_beta", "Mil-Spec Grade", "Beta", FZero, FOne),
       Row(3, "ms_none", "Mil-Spec Grade", "", FZero, FOne),
       Row(7, "ms_gamma", "Mil-Spec Grade", "Gamma", FZero, FOne),
       Row(5, "re_alpha_b", "Restricted", "Alpha", FRatio(3, 50), FRatio(4, 5)),
       Row(4, "re_alpha_a", "Restricted", "Alpha", FZero, FRatio(1, 2)),
       Row(6, "re_gamma", "Restricted", "Gamma", FZero, FOne),
       Row(8, "co_alpha", "Covert", "Alpha", FZero, FOne),
       Row(9, "ex_alpha", "Extraordinary", "Alpha", FZero, FOne),
       Row(10, "cb_alpha", "Contraband", "Alpha", FZero, FOne),
       Row(11, "re_none", "Restricted", "", FZero, FOne) >>

RECURSIVE Reverse(_)
Reverse(s) == IF s = <<>> THEN <<>> ELSE Append(Reverse(Tail(s)), Head(s))

\* the row orders the table is loaded in
CatalogOrders == {CatalogRows, Reverse(CatalogRows)}

\* identifiers and names a caller asks for; 99 and "missing" match no row
Ids == {1, 2, 3, 4, 5, 6, 7, 8, 9, 10, 11, 99}
Names == {"ms_alpha", "re_alpha_a", "co_alpha", "missing"}
\* identifiers a caller of the engine puts in its input list
InputIds == {1, 2, 7, 8, 9}

(* ------------------------------ Skin ---------------------------------- *)
\* Skin.__init__: the object built from the first row with this id.
SkinInit(item_id, md) ==
    LET row == SelectSeq(md, LAMBDA r : r.id = item_id)
    IN  IF Len(row) = 0
        THEN [exc |-> Exc("ValueError", "No item found"), obj |-> None]
        ELSE [exc |-> NoExc,
              obj |-> [id |-> item_id, name |-> row[1].name,
                       max_float |-> row[1].max_float,
                       min_float |-> row[1].min_float,
                       rarity |-> row[1].rarity,
                       collection |-> row[1].collections,
                       float |-> None]]

(* --------------------------- Backend lookups -------------------------- *)
\* The mutable backend state threaded through the calls.
Store(c, h) == [cache |-> c, heap |-> h]

\* Backend.get_skin: a reference into the heap, constructed and cached on
\* the first lookup of the identifier.
get_skin(item_id, st, md) ==
    IF item_id \in DOMAIN st.cache
    THEN [exc |-> NoExc, ref |-> st.cache[item_id], st |-> st]
    ELSE LET new == SkinInit(item_id, md)
         IN  IF new.exc # NoExc
             THEN [exc |-> new.exc, ref |-> 0, st |-> st]
             ELSE LET h == Append(st.heap, new.obj)
                      c == [k \in DOMAIN st.cache \cup {item_id} |->
                               IF k = item_id THEN Len(h) ELSE st.cache[k]]
                  IN  [exc |-> NoExc, ref |-> Len(h), st |-> Store(c, h)]

\* Backend.get_skin_by_name: ref 0 stands for the returned None.
get_skin_by_name(name, st, md) ==
    LET row == SelectSeq(md, LAMBDA r : r.name = name)
    IN  IF Len(row) = 0
        THEN [exc |-> NoExc, ref |-> 0, st |-> st]
        ELSE LET new == SkinInit(row[1].id, md)
             IN  IF new.exc # NoExc
                 THEN [exc |-> new.exc, ref |-> 0, st |-> st]
                 ELSE LET h == Append(st.heap, new.obj)
                      IN  [exc |-> NoExc, ref |-> Len(h),
                           st |-> Store(st.cache, h)]

(* ----------------------------- rarity ladder -------------------------- *)
rarity_order ==
    << "Consumer Grade", "Industrial Grade", "Mil-Spec Grade", "Restricted",
       "Classified", "Covert", "Extraordinary" >>

\* list.index: the first position holding x, 0 when there is none
IndexOf(s, x) ==
    IF \E i \in 1..Len(s) : s[i] = x
    THEN CHOOSE i \in 1..Len(s) : s[i] = x /\ \A j \in 1..(i - 1) : s[j] # x
    ELSE 0

\* (mutant) the index after the last wraps around to the first tier
next_rarity_wrapping(rarity) ==
    LET i == IndexOf(rarity_order, rarity)
    IN  IF i = 0
        THEN [exc |-> Exc("ValueError", "not in list"), val |-> ""]
        ELSE [exc |-> NoExc, val |-> rarity_order[(i % Len(rarity_order)) + 1]]

\* Backend.next_rarity
next_rarity(rarity) ==
    LET i == IndexOf(rarity_order, rarity)
    IN  IF i = 0
        THEN [exc |-> Exc("ValueError", "not in list"), val |-> ""]
        ELSE IF i + 1 > Len(rarity_order)
             THEN [exc |-> Exc("IndexError", "list index out of range"),
                   val |-> ""]
             ELSE [exc |-> NoExc, val |-> rarity_order[i + 1]]

(* ------------------------------ candidates ---------------------------- *)
\* [self.backend.get_skin(row['id']) for _, row in target_items.iterrows()]
RECURSIVE FetchRows(_, _, _, _)
\* one element of the comprehension: g is what get_skin returned for it
FetchNext(g, rows, acc, md) ==
    IF g.exc # NoExc
    THEN [exc |-> g.exc, outs |-> <<>>, st |-> g.st]
    ELSE FetchRows(Tail(rows), Append(acc, g.ref), g.st, md)

FetchRows(rows, acc, st, md) ==
    IF rows = <<>>
    THEN [exc |-> NoExc, outs |-> acc, st |-> st]
    ELSE FetchNext(get_skin(Head(rows).id, st, md), rows, acc, md)

\* (mutant) without "if not self.collection: return []": an item of no
\* collection is matched with the next-tier rows of no collection
get_tradeups_any_collection(self, st, md) ==
    LET me == st.heap[self]
        nr == next_rarity(me.rarity)
    IN  IF nr.exc # NoExc
        THEN [exc |-> nr.exc, outs |-> <<>>, st |-> st]
        ELSE FetchRows(
                 SelectSeq(md, LAMBDA r : r.rarity = nr.val
                                          /\ r.collections = me.collection),
                 <<>>, st, md)

\* Skin.get_tradeups of the object at reference self
get_tradeups(self, st, md) ==
    LET me == st.heap[self]
        nr == next_rarity(me.rarity)
    IN  IF nr.exc # NoExc
        THEN [exc |-> nr.exc, outs |-> <<>>, st |-> st]
        ELSE IF me.collection = ""
             THEN [exc |-> NoExc, outs |-> <<>>, st |-> st]
             ELSE FetchRows(
                      SelectSeq(md, LAMBDA r : r.rarity = nr.val
                                               /\ r.collections = me.collection),
                      <<>>, st, md)

(* ------------------------------ outcomes ------------------------------ *)
\* (mutant) probabilities[output_skin] = p: assigns instead of accumulating
AddToAssign(probs, key, p) ==
    IF \E i \in 1..Len(probs) : probs[i].skin = key
    THEN [i \in 1..Len(probs) |->
             IF probs[i].skin = key THEN [skin |-> key, prob |-> p]
             ELSE probs[i]]
    ELSE Append(probs, [skin |-> key, prob |-> p])

\* probabilities[output_skin] += p, on a dict that keeps insertion order
AddTo(probs, key, p) ==
    IF \E i \in 1..Len(probs) : probs[i].skin = key
    THEN [i \in 1..Len(probs) |->
             IF probs[i].skin = key
             THEN [skin |-> key, prob |-> FAdd(probs[i].prob, p)]
             ELSE probs[i]]
    ELSE Append(probs, [skin |-> key, prob |-> FAdd(FZero, p)])

RECURSIVE AddAll(_, _, _)
AddAll(probs, outs, p) ==
    IF outs = <<>> THEN probs
    ELSE AddAll(AddTo(probs, Head(outs), p), Tail(outs), p)

\* 1.0 / n for every count a trade-up can divide by (a table of FDivInt)
Reciprocal == [n \in 1..Len(CatalogRows) |-> FDivInt(FOne, n)]

\* (mutant) the docstring's n_c / 10: the slot weight is 1/10 whatever N is
ContributionOverTen(n_items, n_outputs) ==
    FMul(Reciprocal[DefaultCount], Reciprocal[n_outputs])

\* collection_prob * skin_prob for one input slot
Contribution(n_items, n_outputs) ==
    FMul(Reciprocal[n_items], Reciprocal[n_outputs])

\* the body of "for input_skin in items", from slot i on
RECURSIVE Accumulate(_, _, _, _, _)
\* the probabilities after slot i, whose get_tradeups returned t
SlotProbs(t, its, probs) ==
    IF t.outs = <<>>
    THEN probs
    ELSE AddAll(probs, t.outs, Contribution(Len(its), Len(t.outs)))

AccumulateSlot(t, i, its, probs, md) ==
    IF t.exc # NoExc
    THEN [exc |-> t.exc, probs |-> <<>>, st |-> t.st]
    ELSE Accumulate(i + 1, its, SlotProbs(t, its, probs), t.st, md)

Accumulate(i, its, probs, st, md) ==
    IF i > Len(its)
    THEN [exc |-> NoExc, probs |-> probs, st |-> st]
    ELSE AccumulateSlot(get_tradeups(its[i], st, md), i, its, probs, md)

\* (mutant) sorted(..., key=lambda x: x[1])[::-1]: entries of equal
\* probability come out in the reverse of the order they have in s
RECURSIVE sorted_then_reversed(_)
sorted_then_reversed(s) ==
    IF s = <<>> THEN <<>>
    ELSE LET x == s[Len(s)]
             front == sorted_then_reversed(SubSeq(s, 1, Len(s) - 1))
             k == Cardinality({j \in 1..Len(front) :
                                  FLess(x.prob, front[j].prob)})
         IN  SubSeq(front, 1, k) \o <<x>> \o SubSeq(front, k + 1, Len(front))

\* sorted(..., key=lambda x: x[1], reverse=True): stable, so entries of
\* equal probability keep the order they have in s
RECURSIVE sorted_reverse(_)
sorted_reverse(s) ==
    IF s = <<>> THEN <<>>
    ELSE LET x == s[Len(s)]
             front == sorted_reverse(SubSeq(s, 1, Len(s) - 1))
             k == Cardinality({j \in 1..Len(front) :
                                  ~FLess(front[j].prob, x.prob)})
         IN  SubSeq(front, 1, k) \o <<x>> \o SubSeq(front, k + 1, Len(front))

\* (mutant) compares the first two items only
same_rarity_first_two(its, st) ==
    Len(its) < 2 \/ st.heap[its[1]].rarity = st.heap[its[2]].rarity

\* all items share one rarity
same_rarity(its, st) ==
    Cardinality({st.heap[its[i]].rarity : i \in 1..Len(its)}) = 1

\* (mutant) ten items whatever the rarity
expected_count_ten(rarity) == DefaultCount

expected_count(rarity) ==
    IF rarity = "Covert" THEN CovertCount ELSE DefaultCount

\* "sorted_outcomes = sorted(...); return sorted_outcomes" on the loop's result
SortedOutcomes(a) ==
    IF a.exc # NoExc
    THEN [exc |-> a.exc, out |-> <<>>, st |-> a.st]
    ELSE [exc |-> NoExc, out |-> sorted_reverse(a.probs), st |-> a.st]

\* (mutant) the loop over the items runs before the two validations, so a
\* rejected input has already fetched and cached its candidate outputs
LateValidation(a, its, st) ==
    IF ~same_rarity(its, st)
    THEN [exc |-> Exc("ValueError", "All items must have the same rarity"),
          out |-> <<>>, st |-> a.st]
    ELSE IF Len(its) # expected_count(st.heap[its[1]].rarity)
    THEN [exc |-> Exc("ValueError", "Trade-ups require exactly N items"),
          out |-> <<>>, st |-> a.st]
    ELSE SortedOutcomes(a)

get_tradeup_outcomes_late_validation(its, st, md) ==
    IF its = <<>>
    THEN [exc |-> NoExc, out |-> <<>>, st |-> st]
    ELSE LateValidation(Accumulate(1, its, <<>>, st, md), its, st)

\* Backend.get_tradeup_outcomes on a list of references
get_tradeup_outcomes(its, st, md) ==
    IF its = <<>>
    THEN [exc |-> NoExc, out |-> <<>>, st |-> st]
    ELSE IF ~same_rarity(its, st)
    THEN [exc |-> Exc("ValueError", "All items must have the same rarity"),
          out |-> <<>>, st |-> st]
    ELSE IF Len(its) # expected_count(st.heap[its[1]].rarity)
    THEN [exc |-> Exc("ValueError", "Trade-ups require exactly N items"),
          out |-> <<>>, st |-> st]
    ELSE SortedOutcomes(Accumulate(1, its, <<>>, st, md))

(* ------------------------------ float remap --------------------------- *)
\* (mutant) the mean is taken over all input skins, an unset float adding 0
calculate_output_float_all(input_skins, output_skin) ==
    LET set_skins == SelectSeq(input_skins, LAMBDA k : k.float # None)
        input_floats == [i \in 1..Len(set_skins) |-> set_skins[i].float]
    IN  IF input_floats = <<>>
        THEN None
        ELSE FAdd(output_skin.min_float,
                  FMul(FDivInt(FSum(input_floats), Len(input_skins)),
                       FSub(output_skin.max_float, output_skin.min_float)))

\* Backend.calculate_output_float on Skin objects
calculate_output_float(input_skins, output_skin) ==
    LET set_skins == SelectSeq(input_skins, LAMBDA k : k.float # None)
        input_floats == [i \in 1..Len(set_skins) |-> set_skins[i].float]
    IN  IF input_floats = <<>>
        THEN None
        ELSE LET f_bar == FDivInt(FSum(input_floats), Len(input_floats))
                 min_f == output_skin.min_float
                 max_f == output_skin.max_float
             IN  FAdd(min_f, FMul(f_bar, FSub(max_f, min_f)))

(* ------------------------------ the report ---------------------------- *)
\* f"{x:.4f}": the digits of x to four decimals, as <<units of 1/10000>>
Fixed4(x) == <<FixedUnits(x, 10000)>>

\* f"{p:.2%}": p * 100 (a float product) to two decimals, as <<units of 0.01%>>
Percent2(p) == <<FixedUnits(FMul(p, FInt(100)), 100)>>

Line(t, s, p, f) == [tag |-> t, text |-> s, pct |-> p, flt |-> f]

\* " - name (Float: ...)" for every selected skin
SelectedLines(skins, st) ==
    [i \in 1..Len(skins) |->
        LET k == st.heap[skins[i]]
        IN  Line("item", k.name, None,
                 IF k.float # None THEN Fixed4(k.float) ELSE None)]

\* " - name: p% (Float: ...)" for every outcome
OutcomeLines(skins, sorted_items, st) ==
    [i \in 1..Len(sorted_items) |->
        LET o == st.heap[sorted_items[i].skin]
            output_float ==
                calculate_output_float(
                    [j \in 1..Len(skins) |-> st.heap[skins[j]]], o)
        IN  Line("outcome", o.name, Percent2(sorted_items[i].prob),
                 IF output_float # None THEN Fixed4(output_float) ELSE None)]

\* total += prob over the outcomes
Total(sorted_items) ==
    FSum([i \in 1..Len(sorted_items) |-> sorted_items[i].prob])

\* the report down to "Item rarity check:"
ReportHead(skins, st) ==
    <<Line("Selected Items", "", None, None)>>
        \o SelectedLines(skins, st)
        \o <<Line("Item rarity check", "", None, None)>>

\* ... and on to "Target Collections:"
ReportTarget(skins, st, target) ==
    ReportHead(skins, st)
        \o <<Line("All items have the same rarity", st.heap[skins[1]].rarity,
                  None, None),
             Line("Target rarity", target, None, None),
             Line("Target Collections", "", None, None)>>

\* set(collections): the non-empty collections of the selection
TargetCollections(skins, st) ==
    {st.heap[skins[i]].collection : i \in 1..Len(skins)} \ {""}

\* the try block: t is what get_tradeup_outcomes returned or raised
ReportOutcomes(skins, st, target, t) ==
    IF t.exc.type = "ValueError"
    THEN [exc |-> NoExc, st |-> t.st, colls |-> TargetCollections(skins, st),
          report |-> Append(ReportTarget(skins, st, target),
                            Line("INVALID TRADEUP", t.exc.msg, None, None))]
    ELSE IF t.exc # NoExc
    THEN [exc |-> t.exc, st |-> t.st, colls |-> {}, report |-> <<>>]
    ELSE [exc |-> NoExc, st |-> t.st, colls |-> TargetCollections(skins, st),
          report |->
              ReportTarget(skins, st, target)
                  \o <<Line("Trade-up Outcomes", "", None, None)>>
                  \o OutcomeLines(skins, t.out, t.st)
                  \o <<Line("Total probability", "", Percent2(Total(t.out)),
                            None)>>]

\* from "next_rarity = Backend.next_rarity(rarities[0])" on
ReportSameRarity(skins, st, md, nr) ==
    IF nr.exc # NoExc
    THEN [exc |-> nr.exc, st |-> st, colls |-> {}, report |-> <<>>]
    ELSE ReportOutcomes(skins, st, nr.val,
                        get_tradeup_outcomes(skins, st, md))

\* Backend.analyze_selected_skins: the report as its sequence of lines; the
\* "Target Collections" block is one line per collection of the set, kept
\* here as the set itself (set iteration order is unspecified).
analyze_selected_skins(skins, st, md) ==
    IF skins = <<>>
    THEN [exc |-> NoExc, st |-> st, colls |-> {},
          report |-> <<Line("No items selected", "", None, None)>>]
    ELSE IF Cardinality({st.heap[skins[i]].rarity : i \in 1..Len(skins)}) # 1
    THEN [exc |-> NoExc, st |-> st, colls |-> {},
          report |-> Append(ReportHead(skins, st),
                            Line("ERROR", "different rarities", None, None))]
    ELSE ReportSameRarity(skins, st, md,
                          next_rarity(st.heap[skins[1]].rarity))

(* ------------------------------ the state ----------------------------- *)
\* ret is the outcome of the latest call: its operation, its argument, the
\* exception it raised (NoExc for a normal return) and the value returned.
Call(o, a, e, v) == [op |-> o, arg |-> a, exc |-> e, val |-> v]
NoCall == Call("none", <<>>, NoExc, <<>>)

\* The threads that call get_skin (their steps are further down).
Threads == 1..MaxThreads

\* identifiers the threads ask for; 99 matches no row
ThreadIds == {1, 2, 99}

\* a thread's position in get_skin and its locals: the identifier asked
\* for, the Skin it constructed (0: none), and what its latest call
\* returned (val) or raised (exc)
Idle == [pc |-> "idle", item_id |-> 0, obj |-> 0, exc |-> NoExc, val |-> 0]

\* Backend.__init__: the table is loaded, nothing is cached.
Init ==
    /\ item_metadata \in CatalogOrders
    /\ skin_cache = <<>>
    /\ heap = <<>>
    /\ items = <<>>
    /\ ret = NoCall
    /\ threads = [t \in Threads |-> Idle]
    /\ window = [spinbox |-> <<>>, current_rarity_filter |-> None]

\* runs of equal consecutive identifiers in a list of references
Runs(its, h) ==
    Cardinality({i \in 1..Len(its) : i = 1 \/ h[its[i]].id # h[its[i - 1]].id})

(* ------------------------------ the engine ---------------------------- *)
\* A caller fetches an item by identifier and appends it to its input list.
Select(item_id) ==
    LET g == get_skin(item_id, Store(skin_cache, heap), item_metadata)
        its == IF g.exc = NoExc THEN Append(items, g.ref) ELSE items
    IN  /\ Len(items) < MaxLen
        /\ Runs(its, g.st.heap) <= MaxRuns
        /\ skin_cache' = g.st.cache
        /\ heap' = g.st.heap
        /\ items' = its
        /\ ret' = Call("get_skin", item_id, g.exc, g.ref)
        /\ UNCHANGED <<item_metadata, threads, window>>

\* The caller submits its input list to Backend.get_tradeup_outcomes.
Submit ==
    LET t == get_tradeup_outcomes(items, Store(skin_cache, heap), item_metadata)
    IN  /\ skin_cache' = t.st.cache
        /\ heap' = t.st.heap
        /\ ret' = Call("get_tradeup_outcomes", items, t.exc, t.out)
        /\ UNCHANGED <<item_metadata, items, threads, window>>

\* The caller asks Backend.analyze_selected_skins for the report.
Analyze ==
    LET a == analyze_selected_skins(items, Store(skin_cache, heap),
                                    item_metadata)
    IN  /\ skin_cache' = a.st.cache
        /\ heap' = a.st.heap
        /\ ret' = Call("analyze_selected_skins", items, a.exc,
                       [report |-> a.report, colls |-> a.colls])
        /\ UNCHANGED <<item_metadata, items, threads, window>>

Next ==
    \/ \E item_id \in InputIds : Select(item_id)
    \/ Submit
    \/ Analyze

Spec == Init /\ [][Next]_vars

(* ------------------------- the pure operations ------------------------ *)
Rarities ==
    { "Consumer Grade", "Industrial Grade", "Mil-Spec Grade", "Restricted",
      "Classified", "Covert", "Extraordinary", "Contraband" }

\* Backend.next_rarity applied to a rarity; arg is the walk so far
NextRarity(rarity) ==
    LET n == next_rarity(rarity)
    IN  /\ ret' = Call("next_rarity", <<rarity>>, n.exc, n.val)
        /\ UNCHANGED <<item_metadata, skin_cache, heap, items, threads, window>>

\* ... and applied again to the rarity it returned
NextRarityAgain ==
    /\ ret.op = "next_rarity"
    /\ ret.exc = NoExc
    /\ Len(ret.arg) < MaxWalk
    /\ LET n == next_rarity(ret.val)
       IN  ret' = Call("next_rarity", Append(ret.arg, ret.val), n.exc, n.val)
    /\ UNCHANGED <<item_metadata, skin_cache, heap, items, threads, window>>

\* quality values a caller assigns to skin.float (1.5 lies outside [0, 1])
Quality == {None, FRatio(1, 10), FOne, FRatio(3, 2)}

\* A caller takes a fresh Skin of the catalog by name, assigns q to its
\* float and appends it to its input list.
SelectFloat(name, q) ==
    LET g == get_skin_by_name(name, Store(skin_cache, heap), item_metadata)
    IN  /\ Len(items) < MaxFloats
        /\ g.ref # 0
        /\ skin_cache' = g.st.cache
        /\ heap' = [g.st.heap EXCEPT ![g.ref].float = q]
        /\ items' = Append(items, g.ref)
        /\ ret' = Call("get_skin_by_name", name, g.exc, g.ref)
        /\ UNCHANGED <<item_metadata, threads, window>>

\* Backend.calculate_output_float on the caller's list and an output skin
CalculateOutputFloat(out_id) ==
    LET input_skins == [i \in 1..Len(items) |-> heap[items[i]]]
        output_skin == SkinInit(out_id, item_metadata).obj
    IN  /\ ret' = Call("calculate_output_float",
                       [floats |-> [i \in 1..Len(items) |-> heap[items[i]].float],
                        min_f |-> output_skin.min_float,
                        max_f |-> output_skin.max_float],
                       NoExc,
                       calculate_output_float(input_skins, output_skin))
        /\ UNCHANGED <<item_metadata, skin_cache, heap, items, threads, window>>

NextPure ==
    \/ \E rarity \in Rarities : NextRarity(rarity)
    \/ NextRarityAgain
    \/ \E q \in Quality : SelectFloat("ms_alpha", q)
    \/ \E out_id \in {1, 5} : CalculateOutputFloat(out_id)

SpecPure == Init /\ [][NextPure]_vars

(* ------------------------------ the lookups --------------------------- *)
GetSkin(item_id) ==
    LET g == get_skin(item_id, Store(skin_cache, heap), item_metadata)
    IN  /\ Len(g.st.heap) <= MaxObjs
        /\ skin_cache' = g.st.cache
        /\ heap' = g.st.heap
        /\ ret' = Call("get_skin", item_id, g.exc, g.ref)
        /\ UNCHANGED <<item_metadata, items, threads, window>>

GetSkinByName(name) ==
    LET g == get_skin_by_name(name, Store(skin_cache, heap), item_metadata)
    IN  /\ Len(g.st.heap) <= MaxObjs
        /\ skin_cache' = g.st.cache
        /\ heap' = g.st.heap
        /\ ret' = Call("get_skin_by_name", name, g.exc, g.ref)
        /\ UNCHANGED <<item_metadata, items, threads, window>>

NextCache ==
    \/ \E item_id \in Ids : GetSkin(item_id)
    \/ \E name \in Names : GetSkinByName(name)

SpecCache == Init /\ [][NextCache]_vars

(* ------------------------ concurrent get_skin ------------------------- *)
\* Backend.get_skin run by several threads.  The interpreter may switch
\* threads between the membership test (line 132), the construction of the
\* Skin and the store into the cache (line 133), and the read of the cache
\* for the return value (line 134); nothing in get_skin takes a lock.
\* thread t calls get_skin(item_id)
Enter(t, item_id) ==
    /\ threads[t].pc \in {"idle", "done"}
    /\ threads' = [threads EXCEPT ![t] = [Idle EXCEPT !.pc = "test",
                                                      !.item_id = item_id]]
    /\ UNCHANGED <<item_metadata, skin_cache, heap, items, ret, window>>

\* line 132: if item_id not in self._skin_cache
Test(t) ==
    /\ threads[t].pc = "test"
    /\ threads' = [threads EXCEPT ![t].pc =
                      IF threads[t].item_id \in DOMAIN skin_cache
                      THEN "return" ELSE "construct"]
    /\ UNCHANGED <<item_metadata, skin_cache, heap, items, ret, window>>

\* line 133, right-hand side: Skin(item_id, self), which raises for an
\* identifier without a row
Construct(t) ==
    LET new == SkinInit(threads[t].item_id, item_metadata)
    IN  /\ threads[t].pc = "construct"
        /\ new.exc = NoExc => Len(heap) < MaxObjs
        /\ IF new.exc # NoExc
           THEN /\ threads' = [threads EXCEPT ![t].pc = "done",
                                              ![t].exc = new.exc]
                /\ ret' = Call("get_skin", threads[t].item_id, new.exc, 0)
                /\ UNCHANGED heap
           ELSE /\ heap' = Append(heap, new.obj)
                /\ threads' = [threads EXCEPT ![t].pc = "store",
                                              ![t].obj = Len(heap) + 1]
                /\ UNCHANGED ret
        /\ UNCHANGED <<item_metadata, skin_cache, items, window>>

\* line 133, the assignment: self._skin_cache[item_id] = <the new Skin>
StoreSkin(t) ==
    /\ threads[t].pc = "store"
    /\ skin_cache' = [k \in DOMAIN skin_cache \cup {threads[t].item_id} |->
                         IF k = threads[t].item_id THEN threads[t].obj
                         ELSE skin_cache[k]]
    /\ threads' = [threads EXCEPT ![t].pc = "return"]
    /\ UNCHANGED <<item_metadata, heap, items, ret, window>>

\* line 134: return self._skin_cache[item_id]
Return(t) ==
    /\ threads[t].pc = "return"
    /\ threads' = [threads EXCEPT ![t].pc = "done",
                                  ![t].val = skin_cache[threads[t].item_id]]
    /\ ret' = Call("get_skin", threads[t].item_id, NoExc,
                   skin_cache[threads[t].item_id])
    /\ UNCHANGED <<item_metadata, skin_cache, heap, items, window>>

NextThreads ==
    \/ \E t \in Threads : \E item_id \in ThreadIds : Enter(t, item_id)
    \/ \E t \in Threads : Test(t)
    \/ \E t \in Threads : Construct(t)
    \/ \E t \in Threads : StoreSkin(t)
    \/ \E t \in Threads : Return(t)

SpecThreads == Init /\ [][NextThreads]_vars

(* ------------------- requests that fail, odd items ------------------- *)
\* The engine again, for a caller that also asks for an identifier without
\* a row (99) and selects an item of no collection (3, ms_none).
EdgeIds == {1, 3, 8, 99}

NextEdge ==
    \/ \E item_id \in EdgeIds : Select(item_id)
    \/ Submit
    \/ Analyze

SpecEdge == Init /\ [][NextEdge]_vars

(* --------------------------- the window (app.py) ---------------------- *)
\* Backend.get_item_list: the identifiers of the rows that are neither
\* Extraordinary nor Contraband, in table order
get_item_list(md) ==
    LET filtered == SelectSeq(md, LAMBDA r :
                        r.rarity \notin {"Extraordinary", "Contraband"})
    IN  [k \in 1..Len(filtered) |-> filtered[k].id]

\* "for item_id in self.item_ids: skin = self.backend.get_skin(item_id)"
RECURSIVE GetSkins(_, _, _)
GetSkins(ids, st, md) ==
    IF ids = <<>> THEN st
    ELSE GetSkins(Tail(ids), get_skin(Head(ids), st, md).st, md)

\* QDoubleSpinBox with two decimals: the value it holds for x
Round2(x) == FRatio(FixedUnits(x, 100), 100)

\* QDoubleSpinBox.setValue after setRange(lo, hi): rounded, kept in range
SpinValue(x, lo, hi) ==
    IF FLess(Round2(x), lo) THEN lo
    ELSE IF FLess(hi, Round2(x)) THEN hi ELSE Round2(x)

\* identifiers the user clicks in the left list and values the user types
\* into a spinbox
RowIds == {1, 8}
UserValues == {FRatio(3, 4)}

AppOps == {"TradeCalculator", "show_item", "on_value_changed", "delete_self"}

\* s without its element i
Without(s, i) == SubSeq(s, 1, i - 1) \o SubSeq(s, i + 1, Len(s))

\* analyze_and_display_selection at the end of a handler: a is the analysis
\* of the rows' skins, shown in the output box
Displayed(a, op, arg, its, win) ==
    /\ skin_cache' = a.st.cache
    /\ heap' = a.st.heap
    /\ items' = its
    /\ window' = win
    /\ ret' = Call(op, arg, a.exc, [report |-> a.report, colls |-> a.colls])
    /\ UNCHANGED <<item_metadata, threads>>

\* TradeCalculator.__init__: the backend is built and every listed item is
\* fetched once, which fills the cache; no row is selected
Start ==
    /\ ret.op = "none"
    /\ LET st == GetSkins(get_item_list(item_metadata),
                          Store(skin_cache, heap), item_metadata)
       IN  /\ skin_cache' = st.cache
           /\ heap' = st.heap
    /\ ret' = Call("TradeCalculator", <<>>, NoExc,
                   [report |-> <<>>, colls |-> {}])
    /\ UNCHANGED <<item_metadata, items, threads, window>>

\* show_item, with g what get_skin returned: RowWidget.__init__ sets
\* skin.float = skin.min_float on that Skin and the spinbox to the same
ShowFetched(g, item_id) ==
    LET skin == g.st.heap[g.ref]
        h == [g.st.heap EXCEPT ![g.ref].float = skin.min_float]
        its == Append(items, g.ref)
    IN  Displayed(analyze_selected_skins(its, Store(g.st.cache, h),
                                         item_metadata),
                  "show_item", item_id, its,
                  [spinbox |-> Append(window.spinbox,
                                      SpinValue(skin.min_float, skin.min_float,
                                                skin.max_float)),
                   current_rarity_filter |-> skin.rarity])

\* TradeCalculator.show_item: the user clicks an item of the left list,
\* which shows the listed items of the current rarity filter
ShowItem(item_id) ==
    /\ ret.op \in AppOps
    /\ Len(items) < MaxRows
    /\ \E k \in 1..Len(item_metadata) :
          /\ item_metadata[k].id = item_id
          /\ item_metadata[k].rarity \notin {"Extraordinary", "Contraband"}
          /\ window.current_rarity_filter \in {None, item_metadata[k].rarity}
    /\ ShowFetched(get_skin(item_id, Store(skin_cache, heap), item_metadata),
                   item_id)

\* RowWidget.on_value_changed of row i: the user changed its spinbox to v
OnValueChanged(i, v) ==
    /\ ret.op \in AppOps
    /\ i \in 1..Len(items)
    /\ v # window.spinbox[i]
    /\ ~FLess(v, heap[items[i]].min_float)
    /\ ~FLess(heap[items[i]].max_float, v)
    /\ Displayed(analyze_selected_skins(
                     items,
                     Store(skin_cache, [heap EXCEPT ![items[i]].float = v]),
                     item_metadata),
                 "on_value_changed", i, items,
                 [window EXCEPT !.spinbox[i] = v])

\* RowWidget.delete_self of row i: the row is taken out of the list and the
\* rarity filter is reset
DeleteSelf(i) ==
    /\ ret.op \in AppOps
    /\ i \in 1..Len(items)
    /\ Displayed(analyze_selected_skins(Without(items, i),
                                        Store(skin_cache, heap),
                                        item_metadata),
                 "delete_self", i, Without(items, i),
                 [spinbox |-> Without(window.spinbox, i),
                  current_rarity_filter |-> None])

NextRows ==
    \/ Start
    \/ \E item_id \in RowIds : ShowItem(item_id)
    \/ \E i \in 1..MaxRows : \E v \in UserValues : OnValueChanged(i, v)
    \/ \E i \in 1..MaxRows : DeleteSelf(i)

SpecRows == Init /\ [][NextRows]_vars

(***************************************************************************)
(* The claims.  What they state about inputs and outputs is written here   *)
(* from the catalog rows alone, not with the operators above.              *)
(***************************************************************************)
Eligible ==
    { "Consumer Grade", "Industrial Grade", "Mil-Spec Grade", "Restricted",
      "Classified", "Covert" }

\* the tier following an input-eligible tier
TierAfter(r) ==
    CASE r = "Consumer Grade" -> "Industrial Grade"
      [] r = "Industrial Grade" -> "Mil-Spec Grade"
      [] r = "Mil-Spec Grade" -> "Restricted"
      [] r = "Restricted" -> "Classified"
      [] r = "Classified" -> "Covert"
      [] r = "Covert" -> "Extraordinary"

RowOf(item_id) == CHOOSE k \in 1..Len(item_metadata) : item_metadata[k].id = item_id

\* the latest call was get_tradeup_outcomes / analyze_selected_skins
Submitted == ret.op = "get_tradeup_outcomes"
Analyzed == ret.op = "analyze_selected_skins"
Requested == Submitted \/ Analyzed

\* the input of that call: its size, and the catalog row of slot i
InSize == Len(ret.arg)
InRow(i) == item_metadata[RowOf(heap[ret.arg[i]].id)]
InRarities == {InRow(i).rarity : i \in 1..InSize}
InRarity == InRow(1).rarity

MixedInput == Cardinality(InRarities) > 1
SameRarityInput == Cardinality(InRarities) = 1
RightSize == InSize = (IF InRarity = "Covert" THEN 5 ELSE 10)
ValidInput == SameRarityInput /\ InRarity \in Eligible /\ RightSize

InvalidInputError == ret.exc.type = "ValueError"
    /\ ret.exc.msg \in {"All items must have the same rarity",
                        "Trade-ups require exactly N items"}

\* candidate outputs of a collection: rows of the next tier in it
Candidates(c) ==
    {k \in 1..Len(item_metadata) :
        /\ c # ""
        /\ item_metadata[k].rarity = TierAfter(InRarity)
        /\ item_metadata[k].collections = c}
SlotsIn(c) == {i \in 1..InSize : InRow(i).collections = c}
SlotsWithCandidate == {i \in 1..InSize : Candidates(InRow(i).collections) # {}}

\* the report's lines with a tag
Tagged(t) == {k \in 1..Len(ret.val.report) : ret.val.report[k].tag = t}

\* Exact arithmetic on the values m * 2^e that doubles are: nothing is
\* rounded, so a comparison here is a comparison of real numbers.
Times(x, k) == [m |-> BMulSmall(x.m, k), e |-> x.e]
Product(a, b) == [m |-> BMul(a.m, b.m), e |-> a.e + b.e]
Plus(a, b) ==
    [m |-> BAdd(Aligned(a, LowExp(a, b)), Aligned(b, LowExp(a, b))),
     e |-> LowExp(a, b)]
Minus(a, b) ==
    [m |-> BSub(Aligned(a, LowExp(a, b)), Aligned(b, LowExp(a, b))),
     e |-> LowExp(a, b)]
Same(a, b) == ~FLess(a, b) /\ ~FLess(b, a)
\* |a - b| <= t
Within(a, b, t) == ~FLess(Plus(b, t), a) /\ ~FLess(Plus(a, t), b)

\* 2^-40, far above what a handful of roundings at 2^-53 can add up to
Tolerance == [m |-> <<1>>, e |-> 0 - 40]

\* p added n times to 0.0, one rounded float addition at a time
RECURSIVE Accumulated(_, _)
Accumulated(p, n) == IF n = 0 THEN FZero ELSE FAdd(Accumulated(p, n - 1), p)

\* the exact (unrounded) sum of the reported probabilities
RECURSIVE SumOf(_)
SumOf(out) == IF out = <<>> THEN FZero ELSE Plus(Head(out).prob, SumOf(Tail(out)))

C1_Witness_Covert ==
    Submitted /\ ValidInput /\ InRarity = "Covert" /\ Len(ret.val) > 0
C1_Witness_Several ==
    /\ Submitted /\ ValidInput /\ InRarity = "Mil-Spec Grade"
    /\ Len(ret.val) = 3
    /\ ret.val[1].prob # ret.val[3].prob
C2_Witness_Full ==
    /\ Submitted /\ ValidInput /\ Cardinality(SlotsWithCandidate) = InSize
    /\ FLess(SumOf(ret.val), FOne)

\* C3: a non-empty input of mixed rarities is rejected with the invalid-input
\* error whatever its size, and no outcome is returned; its report holds the
\* error line and no outcome list.
C3_MixedRejected ==
    /\ (Submitted /\ InSize > 0 /\ MixedInput) =>
          InvalidInputError /\ ret.val = <<>>
    /\ (Analyzed /\ InSize > 0 /\ MixedInput) =>
          /\ ret.exc = NoExc
          /\ Tagged("ERROR") # {}
          /\ Tagged("Trade-up Outcomes") = {}
          /\ Tagged("outcome") = {}
          /\ Tagged("Total probability") = {}

\* a mixed input of ten items, five of them Covert
C3_Witness ==
    /\ Submitted /\ MixedInput /\ InSize = 10
    /\ InRow(1).rarity = "Mil-Spec Grade" /\ InRow(6).rarity = "Covert"
    /\ InRow(5).rarity = "Mil-Spec Grade"

C3_Witness_Report == Analyzed /\ MixedInput /\ InSize = 10

\* C4: a non-empty input of one input-eligible rarity is accepted exactly when
\* its size is 5 for Covert and 10 for any other rarity; every other size is
\* rejected with the invalid-input error.
C4_CountCoupling ==
    /\ (Submitted /\ InSize > 0 /\ SameRarityInput /\ InRarity \in Eligible) =>
          /\ RightSize => ret.exc = NoExc
          /\ ~RightSize => InvalidInputError /\ ret.val = <<>>
    /\ (Analyzed /\ InSize > 0 /\ SameRarityInput /\ InRarity \in Eligible) =>
          /\ ret.exc = NoExc
          /\ RightSize <=> Tagged("Trade-up Outcomes") # {}
          /\ ~RightSize <=> Tagged("INVALID TRADEUP") # {}

\* five Covert items accepted, ten rejected; ten Mil-Spec accepted, five not
C4_Witness ==
    Submitted /\ SameRarityInput /\ InRarity = "Covert" /\ InSize = 5
        /\ ret.exc = NoExc
C4_Witness_TenCovert ==
    Submitted /\ SameRarityInput /\ InRarity = "Covert" /\ InSize = 10
        /\ InvalidInputError
C4_Witness_FiveMilSpec ==
    Submitted /\ SameRarityInput /\ InRarity = "Mil-Spec Grade" /\ InSize = 5
        /\ InvalidInputError
C4_Witness_TenMilSpec ==
    Submitted /\ SameRarityInput /\ InRarity = "Mil-Spec Grade" /\ InSize = 10
        /\ ret.exc = NoExc

\* C5: an empty input is rejected with the invalid-input error, never answered
\* with a successful empty outcome list.
C5_EmptyRejected ==
    (Submitted /\ InSize = 0) => InvalidInputError

\* the first input slot of collection c, and the outcomes' order of first
\* contribution: by that slot, then by catalog row
FirstSlot(c) == CHOOSE i \in SlotsIn(c) : \A j \in SlotsIn(c) : i <= j
ContributedBefore(a, b) ==
    LET fa == FirstSlot(heap[a].collection)
        fb == FirstSlot(heap[b].collection)
    IN  fa < fb \/ (fa = fb /\ RowOf(heap[a].id) < RowOf(heap[b].id))

C7_TerminalRejected ==
    (Requested /\ InSize = 10 /\ SameRarityInput
         /\ InRarity \in {"Extraordinary", "Contraband"}) =>
        /\ Submitted => InvalidInputError /\ ret.val = <<>>
        /\ Analyzed => ret.exc = NoExc /\ Tagged("INVALID TRADEUP") # {}

(* ------------------------------ SpecPure ------------------------------ *)
LadderCall == ret.op = "next_rarity"
\* the rarity the latest application was given
Applied == ret.arg[Len(ret.arg)]
\* the tiers visited by the walk, the one just returned included
Visited == IF ret.exc = NoExc THEN Append(ret.arg, ret.val) ELSE ret.arg

\* C8: next_rarity maps each of the six lower tiers to the tier right after
\* it and fails on Extraordinary and on Contraband; walking up from Consumer
\* Grade revisits no tier and arrives at Extraordinary with the 6th step.
C8_Ladder ==
    LadderCall =>
        /\ Applied \in Eligible =>
              ret.exc = NoExc /\ ret.val = TierAfter(Applied)
        /\ Applied \in {"Extraordinary", "Contraband"} => ret.exc # NoExc
        /\ ret.arg[1] = "Consumer Grade" =>
              /\ \A i, j \in 1..Len(Visited) :
                    Visited[i] = Visited[j] => i = j
              /\ (ret.exc = NoExc /\ ret.val = "Extraordinary")
                    <=> Len(ret.arg) = 6
              /\ Len(ret.arg) <= 7

\* six steps up from Consumer Grade, then the seventh application fails
C8_Witness ==
    /\ LadderCall /\ ret.arg[1] = "Consumer Grade"
    /\ Len(ret.arg) = 7 /\ Applied = "Extraordinary" /\ ret.exc # NoExc

RemapCall == ret.op = "calculate_output_float"
SetFloats == SelectSeq(ret.arg.floats, LAMBDA q : q # None)

\* the exact (unrounded) sum of the set floats
RECURSIVE SumOfFloats(_)
SumOfFloats(s) == IF s = <<>> THEN FZero ELSE Plus(Head(s), SumOfFloats(Tail(s)))

\* C9 (as claimed): the remap returns None exactly when no input float is set,
\* and when all set floats equal v it returns min + v * (max - min) exactly.
C9_Exact ==
    RemapCall =>
        /\ (ret.val = None) <=> (SetFloats = <<>>)
        /\ \A v \in Quality \ {None} :
              (SetFloats # <<>> /\ \A i \in 1..Len(SetFloats) : SetFloats[i] = v)
                  => ret.val = FAdd(ret.arg.min_f,
                                    FMul(v, FSub(ret.arg.max_f, ret.arg.min_f)))

\* C9 (amended): the remap returns None exactly when no input float is set;
\* otherwise its result is within 2^-40 of min + average * (max - min), the
\* average taken over the set floats only, without clamping; it is the
\* double-precision evaluation of that formula, which need not be
\* min + v * (max - min) when all set floats equal v.
C9_Remap ==
    RemapCall =>
        /\ (ret.val = None) <=> (SetFloats = <<>>)
        /\ SetFloats # <<>> =>
              /\ ~FLess(ret.val, ret.arg.min_f)
              /\ Within(Times(Minus(ret.val, ret.arg.min_f), Len(SetFloats)),
                        Product(SumOfFloats(SetFloats),
                                Minus(ret.arg.max_f, ret.arg.min_f)),
                        Times(Tolerance, Len(SetFloats)))

\* an unset float beside set ones whose mean 3/2 carries the result past max
C9_Witness ==
    /\ RemapCall
    /\ \E i \in 1..Len(ret.arg.floats) : ret.arg.floats[i] = None
    /\ SetFloats # <<>>
    /\ ret.val # None
    /\ FLess(ret.arg.max_f, ret.val)
    /\ ret.arg.min_f # FZero

\* three set floats of 0.1 whose computed mean is not 0.1
C9_Witness_Mean ==
    /\ RemapCall /\ Len(SetFloats) = 3
    /\ \A i \in 1..3 : SetFloats[i] = FRatio(1, 10)
    /\ ret.val # None
    /\ FLess(FRatio(1, 10), ret.val)

(* ------------------------------ SpecCache ----------------------------- *)
Lookup == ret.op \in {"get_skin", "get_skin_by_name"}

\* C10: after any sequence of lookups by identifier and by name at most one
\* Skin has been constructed per identifier, and every lookup that returns an
\* item returns the cached instance of its identifier.
C10_OneInstancePerId ==
    /\ \A i, j \in 1..Len(heap) : heap[i].id = heap[j].id => i = j
    /\ (Lookup /\ ret.exc = NoExc /\ ret.val # 0) =>
          /\ heap[ret.val].id \in DOMAIN skin_cache
          /\ skin_cache[heap[ret.val].id] = ret.val

(* ----------------------------- SpecThreads ---------------------------- *)
\* the threads whose latest get_skin(item_id) returned a Skin
Returned(item_id) ==
    {t \in Threads : /\ threads[t].pc = "done"
                     /\ threads[t].exc = NoExc
                     /\ threads[t].item_id = item_id}

\* C11: whatever the interleaving of the threads' membership tests,
\* constructions and cache insertions, at most one Skin is ever constructed
\* per identifier, all threads that asked for an identifier are returned
\* the same instance, and a populated cache entry is never overwritten (the
\* Skin a thread has inserted stays the cache's entry).
C11_AtMostOnce ==
    /\ \A i, j \in 1..Len(heap) : heap[i].id = heap[j].id => i = j
    /\ \A item_id \in ThreadIds :
          \A t, u \in Returned(item_id) : threads[t].val = threads[u].val
    /\ \A t \in Threads :
          (threads[t].pc \in {"return", "done"} /\ threads[t].obj # 0)
              => skin_cache[threads[t].item_id] = threads[t].obj

\* two threads were returned different instances of identifier 1, the
\* second insertion having replaced the first
C11_Witness ==
    /\ \E t, u \in Returned(1) : threads[t].val # threads[u].val
    /\ \E i, j \in 1..Len(heap) : i # j /\ heap[i].id = heap[j].id

(* ------------------------- SpecCache, continued ----------------------- *)
\* the latest lookup asked for an identifier or a name that no row has
NoRecord ==
    /\ Lookup
    /\ \A k \in 1..Len(item_metadata) :
          IF ret.op = "get_skin" THEN item_metadata[k].id # ret.arg
          ELSE item_metadata[k].name # ret.arg

\* C12: a lookup that no catalog record matches, by identifier or by exact
\* name, raises the not-found error; it returns neither an item nor None.
C12_NotFoundRaises ==
    NoRecord => ret.exc = Exc("ValueError", "No item found")

\* a lookup by a name without a record that returned None
C12_Witness ==
    NoRecord /\ ret.op = "get_skin_by_name" /\ ret.exc = NoExc /\ ret.val = 0

\* a lookup by an identifier without a record, which raised
C12_Witness_ById ==
    NoRecord /\ ret.op = "get_skin" /\ ret.exc.type = "ValueError"

(* ------------------------------ SpecEdge ------------------------------ *)
\* the latest request failed: get_tradeup_outcomes rejected its input for
\* mixed rarity or wrong count, or get_skin found no row
Rejected ==
    \/ Submitted /\ InvalidInputError
    \/ ret.op = "get_skin" /\ ret.exc = Exc("ValueError", "No item found")

\* C13: a step that is a rejected request (get_tradeup_outcomes rejecting
\* mixed rarity or a wrong count, get_skin failing for an absent
\* identifier) leaves the cache, every Skin and its float, the catalog and
\* the caller's selection as they were, so a following request is answered
\* from the state the failed request found.
C13_FailureFrame ==
    [][Rejected' =>
          /\ skin_cache' = skin_cache
          /\ heap' = heap
          /\ item_metadata' = item_metadata
          /\ items' = items
          /\ get_tradeup_outcomes(items', Store(skin_cache', heap'),
                                  item_metadata')
                = get_tradeup_outcomes(items, Store(skin_cache, heap),
                                       item_metadata)]_vars

\* six Covert items are rejected after the first five were accepted and
\* their outcome (identifier 9) was cached
C13_Witness ==
    /\ Submitted /\ InvalidInputError /\ InSize = 6
    /\ InRarities = {"Covert"}
    /\ 9 \in DOMAIN skin_cache

\* get_skin(99) failed with a populated cache
C13_Witness_Absent ==
    /\ ret.op = "get_skin" /\ ret.arg = 99 /\ ret.exc.type = "ValueError"
    /\ DOMAIN skin_cache # {}

\* a mixed input was rejected
C13_Witness_Mixed ==
    Submitted /\ InvalidInputError /\ MixedInput /\ InSize = 10

\* the catalog rows a valid input can turn into: rows of the next rarity
\* whose collection is the non-empty collection of some input slot
Siblings ==
    {k \in 1..Len(item_metadata) :
        /\ item_metadata[k].rarity = TierAfter(InRarity)
        /\ \E i \in 1..InSize :
              /\ InRow(i).collections # ""
              /\ InRow(i).collections = item_metadata[k].collections}

\* C14: for a valid input the returned output items are exactly the catalog
\* items of the next rarity whose collection equals the non-empty collection
\* of some input item, each listed once and with a probability above 0; an
\* input item without a collection contributes no outcome.
C14_ExactSiblings ==
    (Submitted /\ ValidInput) =>
        /\ ret.exc = NoExc
        /\ {RowOf(heap[ret.val[k].skin].id) : k \in 1..Len(ret.val)} = Siblings
        /\ Len(ret.val) = Cardinality(Siblings)
        /\ \A k \in 1..Len(ret.val) :
              /\ FLess(FZero, ret.val[k].prob)
              /\ heap[ret.val[k].skin].collection # ""
              /\ heap[ret.val[k].skin].rarity = TierAfter(InRarity)

\* ten Mil-Spec items, some of collection Alpha and some of no collection:
\* the two Alpha items of the next tier and nothing else
C14_Witness ==
    /\ Submitted /\ ValidInput
    /\ \E i \in 1..InSize : InRow(i).collections = ""
    /\ \E i \in 1..InSize : InRow(i).collections = "Alpha"
    /\ Len(ret.val) = 2

\* ten items of no collection: no outcome
C14_Witness_None ==
    /\ Submitted /\ ValidInput
    /\ \A i \in 1..InSize : InRow(i).collections = ""
    /\ ret.val = <<>>

(* ------------------------------ SpecRows ------------------------------ *)
\* a handler of the window has run and the selection is its rows
Selection == ret.op \in {"show_item", "on_value_changed", "delete_self"}

\* the quality values the user assigned, slot by slot (a new slot's value
\* is the item's minimum, which its spinbox shows)
Assigned == window.spinbox

\* the remap of the assigned values into the range of outcome o
RemapOfAssigned(o) ==
    FAdd(o.min_float,
         FMul(FDivInt(FSum(Assigned), Len(Assigned)),
              FSub(o.max_float, o.min_float)))

\* C15: the quality value belongs to the slot: after adding a slot or
\* assigning a value to one slot, every slot of the selection, also one of
\* two slots holding the same identifier, has the value the user assigned to
\* that slot, and the float printed for an outcome is the remap of the mean
\* of those values.
C15_SlotScoped ==
    Selection =>
        /\ \A i \in 1..Len(items) : heap[items[i]].float = Assigned[i]
        /\ \A k \in Tagged("outcome") :
              \E j \in 1..Len(heap) :
                  /\ heap[j].name = ret.val.report[k].text
                  /\ ret.val.report[k].flt = Fixed4(RemapOfAssigned(heap[j]))

\* two rows of identifier 8 whose spinboxes show different values while
\* both rows' skin has the value typed last
C15_Witness ==
    /\ Selection /\ Len(items) >= 2
    /\ items[1] = items[2]
    /\ Assigned[1] # Assigned[2]
    /\ heap[items[1]].float = heap[items[2]].float

\* five Covert rows, a valid trade-up, whose printed outcome float is not
\* the remap of the mean of the values the spinboxes show
C15_Witness_Mean ==
    /\ Selection /\ Len(items) = 5
    /\ \E k \in Tagged("outcome") :
          \E j \in 1..Len(heap) :
              /\ heap[j].name = ret.val.report[k].text
              /\ ret.val.report[k].flt # Fixed4(RemapOfAssigned(heap[j]))

====
